---- MODULE Spec2Model ----
(***************************************************************************)
(* Model of cate/tx.py: the transaction builders, the refund validator and *)
(* the cooperative signer of a two-party cross-chain atomic swap.          *)
(*                                                                         *)
(* The functions of tx.py are stateless: all state lives in the caller.    *)
(* The model keeps the caller's state: the clock, the funding transaction  *)
(* and the refund transaction the two parties currently exchange, the last *)
(* call made on the module with its result, and whether a call of          *)
(* assert_tx2_valid has returned normally so far.                          *)
(*                                                                         *)
(* Time is counted in hours (the validator's window is 12h..72h); one tick *)
(* of the clock is one unit.                                               *)
(***************************************************************************)
EXTENDS Integers, Sequences, FiniteSets, TLC

VARIABLES now, funding, refund, call, validated

vars == <<now, funding, refund, call, validated>>

(***************************************************************************)
(* Bounds of the model.                                                    *)
(***************************************************************************)
MaxNow == 1
MaxUnspent == 3
MaxAmount == 2
MaxFee == 1
MaxScriptLen == 3

(***************************************************************************)
(* Constants of the program.                                               *)
(***************************************************************************)
LOCK_MIN_HOURS == 12
LOCK_MAX_HOURS == 72
TX1_SIZE == 2000
TX2_SIZE == 1000
SPEND_SIZE == 1000
\* 0xffffffff as two 16-bit halves <<high, low>>: the value does not fit
\* TLC's 32-bit integers, and only equality is ever asked of a sequence number.
SEQUENCE_FINAL == <<65535, 65535>>
SEQUENCE_ONE == <<0, 1>>
SIGHASH_ALL == "SIGHASH_ALL"

Parties == {"A", "B"}
Secrets == {"x"}

(***************************************************************************)
(* Byte strings.  Every value a script can push is a record tagged by k.   *)
(***************************************************************************)
None == [k |-> "none"]
Bytes(s) == [k |-> "bytes", v |-> s]
Empty == Bytes(<<>>)
PubKey(p) == [k |-> "pub", p |-> p]
Hash160(d) == [k |-> "h160", of |-> d]
Hash256(d) == [k |-> "h256", of |-> d]
b2x(d) == [k |-> "hex", of |-> d]
\* A party's address: the hash of its public key.
Address(p) == Hash160(PubKey(p))

Raise(e, m) == [outcome |-> e, msg |-> m]

(***************************************************************************)
(* Scripts: sequences of elements (opcode, data), as CScript.raw_iter      *)
(* yields them: data is None for an opcode that pushes nothing.            *)
(***************************************************************************)
Op(o) == [op |-> o, data |-> None]
Push(d) == [op |-> "PUSHDATA", data |-> d]
OP_0 == [op |-> "OP_0", data |-> Empty]
OP_2 == Op("OP_2")
\* CScript's coercion of a list item: an integer becomes a small-integer
\* opcode, a byte string a data push.
CScriptInt(n) == IF n = 0 THEN OP_0 ELSE IF n = 2 THEN OP_2 ELSE Push(Bytes(<<n>>))

(***************************************************************************)
(* Transactions.                                                           *)
(***************************************************************************)
COutPoint(hash, n) == [hash |-> hash, n |-> n]
CMutableTxIn(prevout, scriptSig, nSequence) ==
  [prevout |-> prevout, scriptSig |-> scriptSig, nSequence |-> nSequence]
CTxOut(nValue, scriptPubKey) == [nValue |-> nValue, scriptPubKey |-> scriptPubKey]
CMutableTransaction(vin, vout, nLockTime) ==
  [vin |-> vin, vout |-> vout, nLockTime |-> nLockTime]
GetHash(tx) == [k |-> "txid", of |-> tx]
to_scriptPubKey(addr) ==
  <<Op("OP_DUP"), Op("OP_HASH160"), Push(addr), Op("OP_EQUALVERIFY"), Op("OP_CHECKSIG")>>

\* The signature hash of input n: the transaction with every unlocking script
\* blanked and the script being satisfied put in input n's place.
StripSigs(tx) == [tx EXCEPT !.vin = [i \in DOMAIN tx.vin |-> [tx.vin[i] EXCEPT !.scriptSig = <<>>]]]
SignatureHash(script, tx, n, hashtype) ==
  [k |-> "sighash", script |-> script, tx |-> StripSigs(tx), n |-> n, hashtype |-> hashtype]
\* seckey.sign(sighash) + bytes([SIGHASH_ALL])
Sign(seckey, sighash, hashtype) ==
  [k |-> "sig", signer |-> seckey, sighash |-> sighash, hashtype |-> hashtype]

(***************************************************************************)
(* The wallet (proxy) and the fee rate: external collaborators.            *)
(***************************************************************************)
Proxy(owner, unspent, complete) == [owner |-> owner, unspent |-> unspent, complete |-> complete]
listunspent(proxy) == proxy.unspent
getrawchangeaddress(proxy) == Hash160([k |-> "changepub", p |-> proxy.owner])
\* The wallet gives the key of its own address only.
dumpprivkey(proxy, addr) ==
  IF addr = Address(proxy.owner) THEN [outcome |-> "ok", seckey |-> proxy.owner]
  ELSE Raise("JSONRPCError", "no private key for the address")
signrawtransaction(proxy, tx) ==
  [complete |-> proxy.complete,
   tx |-> IF proxy.complete
          THEN [tx EXCEPT !.vin = [i \in DOMAIN tx.vin |->
                  [tx.vin[i] EXCEPT !.scriptSig = <<Push([k |-> "walletsig", p |-> proxy.owner])>>]]]
          ELSE tx]
get_fee(fee_rate, size) == fee_rate[size]

(***************************************************************************)
(* assert_tx2_valid.  utcnow1 and utcnow2 are the two readings of the      *)
(* clock the function takes (one for each end of the window).              *)
(***************************************************************************)
\* A slip at the lower end of the window: a lock time exactly 12 hours ahead refused.
LockTooEarlyInclusive(lock_time, lock_min) == lock_time <= lock_min
LockTooEarly(lock_time, lock_min) == lock_time < lock_min
LockTooLate(lock_time, lock_max) == lock_time > lock_max

assert_tx2_valid(tx2, utcnow1, utcnow2) ==
  LET lock_min == utcnow1 + LOCK_MIN_HOURS
      lock_max == utcnow2 + LOCK_MAX_HOURS
      lock_time == tx2.nLockTime
  IN  IF LockTooEarly(lock_time, lock_min)
        THEN Raise("TradeError", "lock time is less than 24 hours in the future")
      ELSE IF LockTooLate(lock_time, lock_max)
        THEN Raise("TradeError", "lock time is more than 72 hours in the future")
      ELSE IF Len(tx2.vin) # 1
        THEN Raise("TradeError", "TX2 does not have exactly one input")
      ELSE IF Len(tx2.vout) # 1
        THEN Raise("TradeError", "TX2 does not exactly one output")
      ELSE IF tx2.vin[1].nSequence = SEQUENCE_FINAL
        THEN Raise("TradeError", "TX2 input's sequence is final")
      ELSE [outcome |-> "ok"]

(***************************************************************************)
(* find_inputs                                                             *)
(***************************************************************************)
\* A slip in the loop's exit: an exact cover does not stop the selection.
CoveredStrictly(total_in, quantity) == total_in > quantity
Covered(total_in, quantity) == total_in >= quantity

RECURSIVE find_inputs_loop(_, _, _, _, _)
find_inputs_loop(unspent, quantity, i, total_in, txins) ==
  IF i > Len(unspent) THEN [total_in |-> total_in, txins |-> txins]
  ELSE LET t == total_in + unspent[i].amount
           ins == Append(txins, CMutableTxIn(unspent[i].outpoint, <<>>, SEQUENCE_FINAL))
       IN  IF Covered(t, quantity) THEN [total_in |-> t, txins |-> ins]
           ELSE find_inputs_loop(unspent, quantity, i + 1, t, ins)

find_inputs(proxy, quantity) ==
  LET r == find_inputs_loop(listunspent(proxy), quantity, 1, 0, <<>>)
  IN  IF r.total_in < quantity THEN Raise("FundsError", "Insufficient funds.")
      ELSE [outcome |-> "ok", txins |-> r.txins, total_in |-> r.total_in]

(***************************************************************************)
(* build_tx1_cscript, build_tx1, build_tx3                                 *)
(***************************************************************************)
build_tx1_cscript(own_address, peer_address, secret_hash) ==
  << Op("OP_IF"),
       Op("OP_2DUP"),
         Op("OP_HASH160"), Push(peer_address), Op("OP_EQUALVERIFY"),
         Op("OP_HASH160"), Push(own_address), Op("OP_EQUALVERIFY"),
         CScriptInt(2), Op("OP_CHECKMULTISIG"),
     Op("OP_ELSE"),
       Op("OP_DUP"),
         Op("OP_HASH160"), Push(peer_address), Op("OP_EQUALVERIFY"),
         Op("OP_CHECKSIGVERIFY"),
         Op("OP_HASH256"), Push(b2x(secret_hash)), Op("OP_EQUAL"),
     Op("OP_ENDIF") >>

\* A slip in the change test: a change output also when nothing is left over.
NeedsChangeOrEqual(total_in, quantity_inc_fee) == total_in >= quantity_inc_fee
NeedsChange(total_in, quantity_inc_fee) == total_in > quantity_inc_fee

build_tx1(proxy, quantity, own_address, peer_address, secret_hash, fee_rate) ==
  LET quantity_inc_fee == quantity + get_fee(fee_rate, TX1_SIZE)
      sel == find_inputs(proxy, quantity_inc_fee)
  IN  IF sel.outcome # "ok" THEN sel
      ELSE
        LET txout == CTxOut(quantity, build_tx1_cscript(own_address, peer_address, secret_hash))
            txouts == IF NeedsChange(sel.total_in, quantity_inc_fee)
                      THEN <<txout, CTxOut(sel.total_in - quantity_inc_fee,
                                           to_scriptPubKey(getrawchangeaddress(proxy)))>>
                      ELSE <<txout>>
            tx == CMutableTransaction(sel.txins, txouts, 0)
            tx_signed == signrawtransaction(proxy, tx)
        IN  IF ~tx_signed.complete
              THEN Raise("TradeError", "Transaction came back without all inputs signed.")
            ELSE [outcome |-> "ok", tx |-> tx_signed.tx]

\* A funding builder that refuses to fund before a refund was validated.
build_tx3_after_validation(proxy, quantity, own_address, peer_address, secret_hash, fee_rate) ==
  IF validated
    THEN build_tx1(proxy, quantity, peer_address, own_address, secret_hash, fee_rate)
  ELSE Raise("TradeError", "no refund transaction has been validated")
build_tx3(proxy, quantity, own_address, peer_address, secret_hash, fee_rate) ==
  build_tx1(proxy, quantity, peer_address, own_address, secret_hash, fee_rate)

(***************************************************************************)
(* build_tx2, build_tx4                                                    *)
(***************************************************************************)
\* The script build_tx2 signs over: the one recorded in the funding
\* transaction's output 0.
\* Slips in build_tx2: signing over no script; a final sequence number.
Tx2SigScriptBlank(prev_out) == <<>>
Tx2SequenceFinal == SEQUENCE_FINAL
Tx2SigScript(prev_out) == prev_out.scriptPubKey
Tx2Sequence == SEQUENCE_ONE

build_tx2(proxy, tx1, nLockTime, own_address, fee_rate) ==
  IF Len(tx1.vout) = 0 THEN Raise("IndexError", "tx1.vout[0]")
  ELSE
    LET prev_txid == GetHash(tx1)
        prev_out == tx1.vout[1]
        txin == CMutableTxIn(COutPoint(prev_txid, 0), <<>>, Tx2Sequence)
        key == dumpprivkey(proxy, own_address)
    IN  IF key.outcome # "ok" THEN key
        ELSE
          LET txin_scriptPubKey == Tx2SigScript(prev_out)
              fee == get_fee(fee_rate, TX2_SIZE)
              txouts == <<CTxOut(prev_out.nValue - fee, to_scriptPubKey(own_address))>>
              tx == CMutableTransaction(<<txin>>, txouts, nLockTime)
              sighash == SignatureHash(txin_scriptPubKey, tx, 0, SIGHASH_ALL)
              sig == Sign(key.seckey, sighash, SIGHASH_ALL)
          IN  [outcome |-> "ok",
               tx |-> [tx EXCEPT !.vin[1].scriptSig = <<Push(sig), Push(PubKey(key.seckey))>>]]

build_tx4(proxy, tx3, nLockTime, own_address, fee_rate) ==
  build_tx2(proxy, tx3, nLockTime, own_address, fee_rate)

(***************************************************************************)
(* build_tx3_spend.  The function reads fee_rate and seckey, which are     *)
(* neither parameters nor names the module defines or imports.             *)
(***************************************************************************)
ModuleGlobals ==
  {"praw", "decode", "calendar", "datetime", "Decimal", "hashlib", "os", "StringIO",
   "yaml", "sys", "error",
   "assert_tx2_valid", "find_inputs", "build_tx1_cscript", "build_tx1", "build_tx2",
   "build_tx3", "build_tx4", "build_tx3_spend", "sign_tx2"}
SpendLocals == {"proxy", "tx1", "secret", "own_address"}
Resolves(name, locals) == name \in (locals \cup ModuleGlobals)
\* The value of a module-level name (read only where Resolves holds).
GlobalValue(name) == [k |-> "global", p |-> name]

build_tx3_spend(proxy, tx1, secret, own_address) ==
  IF ~Resolves("fee_rate", SpendLocals)
    THEN Raise("NameError", "global name 'fee_rate' is not defined")
  ELSE IF Len(tx1.vout) = 0 THEN Raise("IndexError", "tx1.vout[0]")
  ELSE IF ~Resolves("seckey", SpendLocals)
    THEN Raise("NameError", "global name 'seckey' is not defined")
  ELSE
    LET fee == get_fee(GlobalValue("fee_rate"), SPEND_SIZE)
        seckey == GlobalValue("seckey")
        prev_txid == GetHash(tx1)
        prev_out == tx1.vout[1]
        txin == CMutableTxIn(COutPoint(prev_txid, 0), <<>>, SEQUENCE_ONE)
        txin_scriptPubKey == prev_out.scriptPubKey
        txouts == <<CTxOut(prev_out.nValue - fee, to_scriptPubKey(own_address))>>
        tx == CMutableTransaction(<<txin>>, txouts, 0)
        sighash == SignatureHash(txin_scriptPubKey, tx, 0, SIGHASH_ALL)
        sig == Sign(seckey, sighash, SIGHASH_ALL)
    IN  [outcome |-> "ok",
         tx |-> [tx EXCEPT !.vin[1].scriptSig =
                   <<Push(secret), Push(sig), Push(PubKey(seckey)), CScriptInt(0)>>]]

(***************************************************************************)
(* sign_tx2                                                                *)
(***************************************************************************)
\* Python's truth value of a scanned element: None and the empty byte string
\* are false.
Falsy(d) == d = None \/ d = Empty

RECURSIVE sign_tx2_scan(_, _, _, _)
sign_tx2_scan(scriptSig, i, other_sig, other_pubkey) ==
  IF i > Len(scriptSig)
    THEN [outcome |-> "ok", other_sig |-> other_sig, other_pubkey |-> other_pubkey]
  ELSE LET data == scriptSig[i].data
       IN  IF other_sig = None THEN sign_tx2_scan(scriptSig, i + 1, data, other_pubkey)
           ELSE IF other_pubkey = None THEN sign_tx2_scan(scriptSig, i + 1, other_sig, data)
           ELSE Raise("TradeError", "TX2 input has more than two elements, expected exactly two.")

sign_tx2(proxy, tx2, own_address, peer_address, secret_hash) ==
  IF Len(tx2.vin) # 1 THEN Raise("TradeError", "TX2 does not have exactly one input")
  ELSE
    LET scan == sign_tx2_scan(tx2.vin[1].scriptSig, 1, None, None)
    IN  IF scan.outcome # "ok" THEN scan
        ELSE IF Falsy(scan.other_sig) \/ Falsy(scan.other_pubkey)
          THEN Raise("TradeError", "TX2 input has less than two elements, expected exactly two.")
        ELSE
          LET key == dumpprivkey(proxy, own_address)
          IN  IF key.outcome # "ok" THEN key
              ELSE
                LET txin_scriptPubKey == build_tx1_cscript(peer_address, own_address, secret_hash)
                    sighash == SignatureHash(txin_scriptPubKey, tx2, 0, SIGHASH_ALL)
                    sig == Sign(key.seckey, sighash, SIGHASH_ALL)
                IN  [outcome |-> "ok",
                     tx |-> [tx2 EXCEPT !.vin[1].scriptSig =
                               << CScriptInt(0), Push(sig), Push(scan.other_sig),
                                  Push(PubKey(key.seckey)), Push(scan.other_pubkey),
                                  CScriptInt(2) >>]]

(***************************************************************************)
(* Script evaluation: the chain's rules for the opcodes the escrow script  *)
(* and its unlocking scripts use.  The unlocking script runs first, the    *)
(* locking script then runs on the stack it leaves; the spend is valid     *)
(* when nothing failed and the top of the final stack is true.             *)
(***************************************************************************)
CastToBool(d) == ~(d.k = "bytes" /\ \A i \in DOMAIN d.v : d.v[i] = 0)
BoolBytes(b) == IF b THEN Bytes(<<1>>) ELSE Empty
\* A script number: a byte string of at most four bytes (here: at most one).
IsNum(d) == d.k = "bytes" /\ Len(d.v) <= 1
NumOf(d) == IF d.v = <<>> THEN 0 ELSE d.v[1]

CheckSig(sig, pub, scriptCode, tx, n) ==
  /\ sig.k = "sig"
  /\ pub.k = "pub"
  /\ sig.signer = pub.p
  /\ sig.sighash = SignatureHash(scriptCode, tx, n, sig.hashtype)

\* Signatures are matched against the keys in order; a key may be skipped.
RECURSIVE MultiSigMatch(_, _, _, _, _)
MultiSigMatch(sigs, keys, scriptCode, tx, n) ==
  IF sigs = <<>> THEN TRUE
  ELSE IF Len(sigs) > Len(keys) THEN FALSE
  ELSE IF CheckSig(Head(sigs), Head(keys), scriptCode, tx, n)
    THEN MultiSigMatch(Tail(sigs), Tail(keys), scriptCode, tx, n)
  ELSE MultiSigMatch(sigs, Tail(keys), scriptCode, tx, n)

Fail(st, why) == [st EXCEPT !.ok = FALSE, !.err = why]
Pop(st, count) == [st EXCEPT !.stack = SubSeq(st.stack, 1, Len(st.stack) - count)]
PushV(st, d) == [st EXCEPT !.stack = Append(st.stack, d)]
Top(st, i) == st.stack[Len(st.stack) + 1 - i]

OpCheckMultiSig(st, scriptCode, tx, n) ==
  LET s == st.stack
      L == Len(s)
  IN  IF L < 1 \/ ~IsNum(s[L]) THEN Fail(st, "OP_CHECKMULTISIG: key count")
      ELSE LET nKeys == NumOf(s[L])
           IN  IF L < nKeys + 2 \/ ~IsNum(s[L - nKeys - 1])
                 THEN Fail(st, "OP_CHECKMULTISIG: signature count")
               ELSE LET nSigs == NumOf(s[L - nKeys - 1])
                    IN  IF nSigs > nKeys \/ L < nKeys + nSigs + 3
                          THEN Fail(st, "OP_CHECKMULTISIG: stack")
                        ELSE LET keys == SubSeq(s, L - nKeys, L - 1)
                                 sigs == SubSeq(s, L - nKeys - nSigs - 1, L - nKeys - 2)
                             IN  PushV(Pop(st, nKeys + nSigs + 3),
                                       BoolBytes(MultiSigMatch(sigs, keys, scriptCode, tx, n)))

ExecOp(e, st, scriptCode, tx, n) ==
  LET depth == Len(st.stack) IN
  CASE e.op = "PUSHDATA" -> PushV(st, e.data)
    [] e.op = "OP_0" -> PushV(st, Empty)
    [] e.op = "OP_2" -> PushV(st, Bytes(<<2>>))
    [] e.op = "OP_DUP" ->
         IF depth < 1 THEN Fail(st, "OP_DUP") ELSE PushV(st, Top(st, 1))
    [] e.op = "OP_2DUP" ->
         IF depth < 2 THEN Fail(st, "OP_2DUP") ELSE PushV(PushV(st, Top(st, 2)), Top(st, 1))
    [] e.op = "OP_HASH160" ->
         IF depth < 1 THEN Fail(st, "OP_HASH160") ELSE PushV(Pop(st, 1), Hash160(Top(st, 1)))
    [] e.op = "OP_HASH256" ->
         IF depth < 1 THEN Fail(st, "OP_HASH256") ELSE PushV(Pop(st, 1), Hash256(Top(st, 1)))
    [] e.op = "OP_EQUAL" ->
         IF depth < 2 THEN Fail(st, "OP_EQUAL")
         ELSE PushV(Pop(st, 2), BoolBytes(Top(st, 1) = Top(st, 2)))
    [] e.op = "OP_EQUALVERIFY" ->
         IF depth < 2 \/ Top(st, 1) # Top(st, 2) THEN Fail(st, "OP_EQUALVERIFY") ELSE Pop(st, 2)
    [] e.op = "OP_CHECKSIG" ->
         IF depth < 2 THEN Fail(st, "OP_CHECKSIG")
         ELSE PushV(Pop(st, 2), BoolBytes(CheckSig(Top(st, 2), Top(st, 1), scriptCode, tx, n)))
    [] e.op = "OP_CHECKSIGVERIFY" ->
         IF depth < 2 \/ ~CheckSig(Top(st, 2), Top(st, 1), scriptCode, tx, n)
           THEN Fail(st, "OP_CHECKSIGVERIFY") ELSE Pop(st, 2)
    [] e.op = "OP_CHECKMULTISIG" -> OpCheckMultiSig(st, scriptCode, tx, n)
    [] OTHER -> Fail(st, "bad opcode")

\* One element of a script; vf is the stack of open conditionals.
Step(e, st, scriptCode, tx, n) ==
  LET executing == \A i \in DOMAIN st.vf : st.vf[i] IN
  CASE e.op = "OP_IF" ->
         IF ~executing THEN [st EXCEPT !.vf = Append(st.vf, FALSE)]
         ELSE IF Len(st.stack) < 1 THEN Fail(st, "OP_IF")
         ELSE [Pop(st, 1) EXCEPT !.vf = Append(st.vf, CastToBool(Top(st, 1)))]
    [] e.op = "OP_ELSE" ->
         IF st.vf = <<>> THEN Fail(st, "OP_ELSE")
         ELSE [st EXCEPT !.vf[Len(st.vf)] = ~st.vf[Len(st.vf)]]
    [] e.op = "OP_ENDIF" ->
         IF st.vf = <<>> THEN Fail(st, "OP_ENDIF")
         ELSE [st EXCEPT !.vf = SubSeq(st.vf, 1, Len(st.vf) - 1)]
    [] OTHER -> IF executing THEN ExecOp(e, st, scriptCode, tx, n) ELSE st

RECURSIVE Run(_, _, _, _, _, _)
Run(script, i, st, scriptCode, tx, n) ==
  IF ~st.ok THEN st
  ELSE IF i > Len(script)
    THEN (IF st.vf = <<>> THEN st ELSE Fail(st, "unbalanced conditional"))
  ELSE Run(script, i + 1, [Step(script[i], st, scriptCode, tx, n) EXCEPT !.pc = i],
           scriptCode, tx, n)

\* The run of scriptSig followed by scriptPubKey for input n of tx.
EvalScript(scriptSig, scriptPubKey, tx, n) ==
  LET st0 == [ok |-> TRUE, err |-> "", pc |-> 0, stack |-> <<>>, vf |-> <<>>]
      st1 == Run(scriptSig, 1, st0, scriptSig, tx, n)
  IN  IF ~st1.ok THEN st1
      ELSE LET st2 == Run(scriptPubKey, 1, [st1 EXCEPT !.pc = 0], scriptPubKey, tx, n)
           IN  IF ~st2.ok THEN st2
               ELSE IF st2.stack = <<>> \/ ~CastToBool(Top(st2, 1))
                 THEN Fail(st2, "false on top of the stack")
               ELSE st2
VerifyScript(scriptSig, scriptPubKey, tx, n) == EvalScript(scriptSig, scriptPubKey, tx, n).ok

(***************************************************************************)
(* Inputs the callers and the peer choose from.                            *)
(***************************************************************************)
SeqsUpTo(S, n) == UNION {[1..m -> S] : m \in 0..n}
\* The i-th coin of a wallet: output 0 of some earlier transaction.
CoinTx(i) == CMutableTransaction(<<>>, <<>>, i)
Unspent(amounts) ==
  [i \in DOMAIN amounts |-> [amount |-> amounts[i], outpoint |-> COutPoint(GetHash(CoinTx(i)), 0)]]
Wallets == {Unspent(a) : a \in SeqsUpTo(1..MaxAmount, MaxUnspent)}
Targets == 0..(MaxUnspent * MaxAmount + 1)
\* A fee rate: the fee it gives for each estimated size.
FeeRates == {[size \in {TX1_SIZE, TX2_SIZE} |-> f] : f \in 0..MaxFee}
\* The wallet and the quantity of the parties that go on to exchange a refund.
SwapWallets == {Unspent(<<1>>), Unspent(<<2>>)}
SwapQuantities == {1}
Secret(x) == [k |-> "secret", p |-> x]
\* Lock times around the ends of the validator's window.
LockOffsets == {LOCK_MIN_HOURS - 1, LOCK_MIN_HOURS, 24, LOCK_MAX_HOURS, LOCK_MAX_HOURS + 1}
LockTimes(t) == {t + d : d \in LockOffsets}

NoMsg == [by |-> "none"]
NoCall == [op |-> "none"]

\* What a peer may send as a refund transaction: any shape.
PeerOutPoint == COutPoint(GetHash(CoinTx(0)), 0)
PeerSig(p) == Sign(p, Bytes(<<>>), SIGHASH_ALL)
PeerOut(p) == CTxOut(1, to_scriptPubKey(Address(p)))
PeerElements == {Push(PeerSig("B")), Push(PubKey("B")), OP_0, Op("OP_NOP")}
PeerRefundShapes(t) ==
  {CMutableTransaction(
     [i \in DOMAIN seqs |->
        CMutableTxIn(PeerOutPoint, <<Push(PeerSig("B")), Push(PubKey("B"))>>, seqs[i])],
     [i \in 1..nout |-> PeerOut("B")], lock) :
   seqs \in SeqsUpTo({SEQUENCE_ONE, SEQUENCE_FINAL}, 2), nout \in 0..2, lock \in LockTimes(t)}
PeerRefundScripts(t) ==
  {CMutableTransaction(<<CMutableTxIn(PeerOutPoint, ss, SEQUENCE_ONE)>>, <<PeerOut("B")>>, t + 24) :
   ss \in SeqsUpTo(PeerElements, MaxScriptLen)}
\* What a peer may send as a funding transaction besides the built ones.
PeerFundings ==
  {CMutableTransaction(<<CMutableTxIn(PeerOutPoint, <<>>, SEQUENCE_FINAL)>>, outs, 0) :
   outs \in {<<>>, <<PeerOut("A")>>}}

(***************************************************************************)
(* The calls.  Each records in call what was asked and what came back.     *)
(***************************************************************************)
Init ==
  /\ now = 0
  /\ funding = NoMsg
  /\ refund = NoMsg
  /\ call = NoCall
  /\ validated = FALSE

Tick ==
  /\ now < MaxNow
  /\ now' = now + 1
  /\ UNCHANGED <<funding, refund, call, validated>>

FindInputs(wallets, quantities) ==
  \E unspent \in wallets, quantity \in quantities :
    /\ call' = [op |-> "find_inputs", unspent |-> unspent, quantity |-> quantity,
                res |-> find_inputs(Proxy("A", unspent, TRUE), quantity)]
    /\ UNCHANGED <<now, funding, refund, validated>>

\* A funding call opens a new exchange: what the previous one left is dropped.
Funded(op, res, own, peer, secret_hash, fee_rate) ==
  /\ funding' = IF res.outcome = "ok"
                THEN [by |-> op, tx |-> res.tx, own |-> own, peer |-> peer,
                      secret_hash |-> secret_hash, fee_rate |-> fee_rate]
                ELSE NoMsg
  /\ refund' = NoMsg

BuildTx1(wallets, quantities) ==
  \E own \in Parties, peer \in Parties, x \in Secrets, unspent \in wallets,
     quantity \in quantities, fee_rate \in FeeRates, complete \in BOOLEAN :
    /\ own # peer
    /\ LET res == build_tx1(Proxy(own, unspent, complete), quantity, Address(own),
                            Address(peer), Hash256(Secret(x)), fee_rate)
       IN  /\ call' = [op |-> "build_tx1", own |-> own, peer |-> peer,
                       secret_hash |-> Hash256(Secret(x)), unspent |-> unspent,
                       quantity |-> quantity, fee |-> get_fee(fee_rate, TX1_SIZE),
                       complete |-> complete, validated |-> validated, res |-> res]
           /\ Funded("build_tx1", res, own, peer, Hash256(Secret(x)), fee_rate)
    /\ UNCHANGED <<now, validated>>

BuildTx3(wallets, quantities) ==
  \E own \in Parties, peer \in Parties, x \in Secrets, unspent \in wallets,
     quantity \in quantities, fee_rate \in FeeRates, complete \in BOOLEAN :
    /\ own # peer
    /\ LET res == build_tx3(Proxy(own, unspent, complete), quantity, Address(own),
                            Address(peer), Hash256(Secret(x)), fee_rate)
       IN  /\ call' = [op |-> "build_tx3", own |-> own, peer |-> peer,
                       secret_hash |-> Hash256(Secret(x)), unspent |-> unspent,
                       quantity |-> quantity, fee |-> get_fee(fee_rate, TX1_SIZE),
                       complete |-> complete, validated |-> validated, res |-> res]
           /\ Funded("build_tx3", res, own, peer, Hash256(Secret(x)), fee_rate)
    /\ UNCHANGED <<now, validated>>

\* The peer hands over a funding transaction of its own making, said to be
\* the funding of the swap (own, peer, secret_hash).
ReceiveFunding ==
  \E tx \in PeerFundings, x \in Secrets, fee_rate \in FeeRates :
    /\ funding' = [by |-> "peer", tx |-> tx, own |-> "A", peer |-> "B",
                   secret_hash |-> Hash256(Secret(x)), fee_rate |-> fee_rate]
    /\ refund' = NoMsg
    /\ call' = [op |-> "receive_funding"]
    /\ UNCHANGED <<now, validated>>

\* The refund of the funding transaction in flight, at the fee rate of the
\* exchange.
Refunded(res) ==
  refund' = IF res.outcome = "ok" THEN [by |-> "builder", tx |-> res.tx] ELSE NoMsg

BuildTx2 ==
  /\ funding # NoMsg
  /\ \E caller \in Parties, own \in Parties, nLockTime \in LockTimes(now) :
       LET res == build_tx2(Proxy(caller, <<>>, TRUE), funding.tx, nLockTime, Address(own),
                            funding.fee_rate)
       IN  /\ call' = [op |-> "build_tx2", caller |-> caller, own |-> own,
                       nLockTime |-> nLockTime, res |-> res]
           /\ Refunded(res)
  /\ UNCHANGED <<now, funding, validated>>

BuildTx4 ==
  /\ funding # NoMsg
  /\ \E caller \in Parties, own \in Parties, nLockTime \in LockTimes(now) :
       LET res == build_tx4(Proxy(caller, <<>>, TRUE), funding.tx, nLockTime, Address(own),
                            funding.fee_rate)
       IN  /\ call' = [op |-> "build_tx4", caller |-> caller, own |-> own,
                       nLockTime |-> nLockTime, res |-> res]
           /\ Refunded(res)
  /\ UNCHANGED <<now, funding, validated>>

\* The peer hands over a refund transaction of its own making.
ReceiveTx2 ==
  /\ \E tx \in PeerRefundShapes(now) \cup PeerRefundScripts(now) :
       refund' = [by |-> "peer", tx |-> tx]
  /\ call' = [op |-> "receive_tx2"]
  /\ UNCHANGED <<now, funding, validated>>

\* The clock may tick between the two readings assert_tx2_valid takes.
AssertTx2Valid ==
  /\ refund # NoMsg
  /\ \E utcnow2 \in {now, now + 1} :
       /\ utcnow2 <= MaxNow
       /\ LET res == assert_tx2_valid(refund.tx, now, utcnow2)
          IN  /\ call' = [op |-> "assert_tx2_valid", utcnow1 |-> now, utcnow2 |-> utcnow2,
                          res |-> res]
              /\ validated' = (validated \/ res.outcome = "ok")
       /\ now' = utcnow2
  /\ UNCHANGED <<funding, refund>>

SignTx2 ==
  /\ refund # NoMsg
  /\ \E caller \in Parties, own \in Parties, peer \in Parties, x \in Secrets :
       /\ own # peer
       /\ call' = [op |-> "sign_tx2", caller |-> caller, own |-> own, peer |-> peer,
                   secret_hash |-> Hash256(Secret(x)),
                   res |-> sign_tx2(Proxy(caller, <<>>, TRUE), refund.tx, Address(own),
                                    Address(peer), Hash256(Secret(x)))]
  /\ UNCHANGED <<now, funding, refund, validated>>

BuildTx3Spend ==
  /\ funding # NoMsg
  /\ \E own \in Parties, x \in Secrets :
       call' = [op |-> "build_tx3_spend", own |-> own, secret |-> Secret(x),
                res |-> build_tx3_spend(Proxy(own, <<>>, TRUE), funding.tx, Secret(x),
                                        Address(own))]
  /\ UNCHANGED <<now, funding, refund, validated>>

(***************************************************************************)
(* Specifications.                                                         *)
(*   Spec       the exchange of a funding and a refund transaction built   *)
(*              by the module itself;                                      *)
(*   SpecPeer   a refund transaction of any shape arrives from the peer;   *)
(*   SpecWallet one call of the coin selector or of a funding builder for  *)
(*              a wallet and a quantity drawn at the start.                *)
(***************************************************************************)
Next ==
  \/ Tick
  \/ BuildTx1(SwapWallets, SwapQuantities)
  \/ BuildTx3(SwapWallets, SwapQuantities)
  \/ ReceiveFunding
  \/ BuildTx2
  \/ BuildTx4
  \/ AssertTx2Valid
  \/ SignTx2
  \/ BuildTx3Spend

Spec == Init /\ [][Next]_vars

NextPeer ==
  \/ Tick
  \/ ReceiveTx2
  \/ AssertTx2Valid
  \/ SignTx2

SpecPeer == Init /\ [][NextPeer]_vars

InitWallet ==
  /\ now = 0
  /\ funding = NoMsg
  /\ refund = NoMsg
  /\ call \in [op : {"request"}, unspent : Wallets, quantity : Targets]
  /\ validated = FALSE

NextWallet ==
  \/ call.op = "request" /\ FindInputs({call.unspent}, {call.quantity})
  \/ call.op = "request" /\ BuildTx1({call.unspent}, {call.quantity})
  \/ call.op = "request" /\ BuildTx3({call.unspent}, {call.quantity})

SpecWallet == InitWallet /\ [][NextWallet]_vars

(***************************************************************************)
(* Properties.                                                             *)
(***************************************************************************)
RECURSIVE PrefixSum(_, _)
PrefixSum(unspent, n) == IF n = 0 THEN 0 ELSE PrefixSum(unspent, n - 1) + unspent[n].amount
TotalUnspent(unspent) == PrefixSum(unspent, Len(unspent))
PrefixInputs(unspent, n) ==
  [i \in 1..n |-> CMutableTxIn(unspent[i].outpoint, <<>>, SEQUENCE_FINAL)]
RECURSIVE OutputSum(_, _)
OutputSum(vout, n) == IF n = 0 THEN 0 ELSE OutputSum(vout, n - 1) + vout[n].nValue

InWindow(t, lock_time) == t + 12 <= lock_time /\ lock_time <= t + 72
\* The lock time is in the window at some instant of the validator's run.
InWindowDuring(c, lock_time) == \E t \in c.utcnow1..c.utcnow2 : InWindow(t, lock_time)
RefundShape(tx) ==
  /\ Len(tx.vin) = 1
  /\ Len(tx.vout) = 1
  /\ tx.vin[1].nSequence # SEQUENCE_FINAL

\* C1: assert_tx2_valid returns normally exactly when the lock time lies in
\* [now+12h, now+72h] (both ends included), there is one input, one output and
\* the input's sequence number is not 0xffffffff; otherwise it raises its
\* protocol error, and a transaction without inputs is refused by the count of
\* the inputs, never by a read of input 0.
C1_ValidatorAcceptsExactly ==
  call.op = "assert_tx2_valid" =>
    /\ call.res.outcome = "ok" <=>
         (InWindowDuring(call, refund.tx.nLockTime) /\ RefundShape(refund.tx))
    /\ call.res.outcome \in {"ok", "TradeError"}
    /\ (Len(refund.tx.vin) = 0 /\ InWindowDuring(call, refund.tx.nLockTime)) =>
         call.res = Raise("TradeError", "TX2 does not have exactly one input")

C1_Witness ==
  /\ call.op = "assert_tx2_valid"
  /\ refund.by = "peer"
  /\ call.res.outcome = "ok"
  /\ refund.tx.nLockTime = call.utcnow1 + 12

\* C2 (as claimed): a funding transaction comes out of build_tx1 / build_tx3
\* only after assert_tx2_valid has returned normally.
C2_ValidatedBeforeFunding ==
  (call.op \in {"build_tx1", "build_tx3"} /\ call.res.outcome = "ok") => validated

\* C2 (amended): build_tx1 / build_tx3 return a funding transaction exactly
\* when the wallet's coins cover quantity + fee and the wallet signs every
\* input, whether or not assert_tx2_valid has returned normally before; the
\* order of validation and funding is left to the caller.
C2_FundingIgnoresValidation ==
  call.op \in {"build_tx1", "build_tx3"} =>
    (call.res.outcome = "ok" <=>
       (TotalUnspent(call.unspent) >= call.quantity + call.fee /\ call.complete))

C2_Witness ==
  /\ call.op = "build_tx3"
  /\ call.res.outcome = "ok"
  /\ ~call.validated
  /\ ~validated

\* The prefix find_inputs is said to return: the shortest one, of at least
\* `least` coins, that covers the quantity.
SelectsPrefix(c, least) ==
  IF TotalUnspent(c.unspent) < c.quantity THEN c.res.outcome = "FundsError"
  ELSE /\ c.res.outcome = "ok"
       /\ \E n \in least..Len(c.unspent) :
            /\ c.res.txins = PrefixInputs(c.unspent, n)
            /\ c.res.total_in = PrefixSum(c.unspent, n)
            /\ PrefixSum(c.unspent, n) >= c.quantity
            /\ \A m \in least..(n - 1) : PrefixSum(c.unspent, m) < c.quantity

\* C3 (as claimed): find_inputs raises the insufficient-funds error when the
\* coins sum to less than the quantity, and otherwise returns the shortest
\* prefix of the coins that covers the quantity, with its exact total.
C3_ShortestPrefix ==
  call.op = "find_inputs" => SelectsPrefix(call, 0)

\* C3 (amended): as claimed, but the prefix returned is the shortest one that
\* is not empty (the loop takes a coin before it tests the total): for a
\* quantity of zero and a wallet with coins it is the first coin, not nothing.
\* Only an empty wallet gives an empty selection.
C3_ShortestNonEmptyPrefix ==
  call.op = "find_inputs" =>
    SelectsPrefix(call, IF Len(call.unspent) = 0 THEN 0 ELSE 1)

C3_Witness ==
  /\ call.op = "find_inputs"
  /\ call.res.outcome = "ok"
  /\ Len(call.res.txins) = 2
  /\ Len(call.unspent) = 3
  /\ call.res.total_in = call.quantity

EscrowScripts(secret_hash) ==
  {build_tx1_cscript(Address(a), Address(b), secret_hash) : a \in Parties, b \in Parties}

\* C4: a transaction returned by build_tx1 / build_tx3 has the escrow output
\* at index 0, of value `quantity`; a change output of value
\* total - quantity - fee exactly when the selected total exceeds
\* quantity + fee; nothing else.  So outputs plus fee equal the selected
\* total, and no change output is worth zero.
C4_EscrowAndChange ==
  (call.op \in {"build_tx1", "build_tx3"} /\ call.res.outcome = "ok") =>
    LET tx == call.res.tx
        total == PrefixSum(call.unspent, Len(tx.vin))
    IN  /\ tx.vin = [i \in 1..Len(tx.vin) |->
                       [PrefixInputs(call.unspent, Len(tx.vin))[i] EXCEPT
                          !.scriptSig = tx.vin[i].scriptSig]]
        /\ Len(tx.vout) \in {1, 2}
        /\ tx.vout[1].nValue = call.quantity
        /\ tx.vout[1].scriptPubKey \in EscrowScripts(call.secret_hash)
        /\ Len(tx.vout) = 2 <=> total > call.quantity + call.fee
        /\ Len(tx.vout) = 2 =>
             /\ tx.vout[2].nValue = total - call.quantity - call.fee
             /\ tx.vout[2].nValue > 0
             /\ tx.vout[2].scriptPubKey \notin EscrowScripts(call.secret_hash)
        /\ OutputSum(tx.vout, Len(tx.vout)) + call.fee = total

C4_Witness ==
  /\ call.op = "build_tx1"
  /\ call.res.outcome = "ok"
  /\ Len(call.res.tx.vout) = 2
  /\ Len(call.res.tx.vin) = 2

\* The refund in flight was built for the funding in flight by its funder, and
\* the last call is the counterparty's sign_tx2 on it, with the parameters of
\* the swap.
CoSigned ==
  /\ call.op = "sign_tx2"
  /\ call.res.outcome = "ok"
  /\ refund.by = "builder"
  /\ funding.by \in {"build_tx1", "build_tx3"}
  /\ refund.tx.vin[1].scriptSig[2].data = PubKey(funding.own)
  /\ call.own = funding.peer
  /\ call.peer = funding.own
  /\ call.secret_hash = funding.secret_hash

\* C5: the unlocking script sign_tx2 completes has six elements and, run
\* before the escrow script build_tx1_cscript(peer, own, secret_hash), spends
\* the output by the cooperative branch.
C5_CooperativeSpendValid ==
  CoSigned =>
    LET tx == call.res.tx
    IN  /\ Len(tx.vin[1].scriptSig) = 6
        /\ VerifyScript(tx.vin[1].scriptSig,
                        build_tx1_cscript(Address(call.peer), Address(call.own),
                                          call.secret_hash),
                        tx, 0)

\* C6: sign_tx2 raises, and returns no transaction, whenever the unlocking
\* script of the first input does not have exactly two elements.
C6_TwoElementsOnly ==
  (/\ call.op = "sign_tx2"
   /\ Len(refund.tx.vin) >= 1
   /\ Len(refund.tx.vin[1].scriptSig) # 2) => call.res.outcome # "ok"

\* C7: in both funding directions the script the counterparty rebuilds in
\* sign_tx2, and signs over, is the script of output 0 of the funding
\* transaction the refund spends.
C7_SameScriptBothDirections ==
  CoSigned =>
    call.res.tx.vin[1].scriptSig[2].data.sighash.script = funding.tx.vout[1].scriptPubKey

\* C8: build_tx3_spend returns a transaction with one input spending output 0
\* of the funding transaction, one output to own address of at most the escrow
\* amount, and an unlocking script of four elements: secret, signature,
\* public key, zero.
C8_SecretSpend ==
  (call.op = "build_tx3_spend" /\ Len(funding.tx.vout) >= 1) =>
    /\ call.res.outcome = "ok"
    /\ LET tx == call.res.tx
       IN  /\ Len(tx.vin) = 1
           /\ tx.vin[1].prevout = COutPoint(GetHash(funding.tx), 0)
           /\ Len(tx.vout) = 1
           /\ tx.vout[1].scriptPubKey = to_scriptPubKey(Address(call.own))
           /\ tx.vout[1].nValue <= funding.tx.vout[1].nValue
           /\ Len(tx.vin[1].scriptSig) = 4
           /\ tx.vin[1].scriptSig[1] = Push(call.secret)
           /\ tx.vin[1].scriptSig[2].data.k = "sig"
           /\ tx.vin[1].scriptSig[3].data.k = "pub"
           /\ tx.vin[1].scriptSig[4] = OP_0

RefundBuilt == call.op \in {"build_tx2", "build_tx4"} /\ call.res.outcome = "ok"
SignedScript(tx) == tx.vin[1].scriptSig[1].data.sighash.script

\* C9 (as claimed): build_tx2 / build_tx4 sign over an escrow script rebuilt
\* from the parameters of the swap, whatever script output 0 of the funding
\* transaction holds.
C9_SignsRebuiltScript ==
  RefundBuilt => SignedScript(call.res.tx) \in EscrowScripts(funding.secret_hash)

\* C9 (amended): build_tx2 / build_tx4 sign over the script read from output 0
\* of the funding transaction (they are given no peer address and no secret
\* hash to rebuild one from): for a funding transaction whose output 0 holds
\* another script than the escrow script, the signed hash is that of the
\* script in output 0.
C9_SignsOutputScript ==
  RefundBuilt => SignedScript(call.res.tx) = funding.tx.vout[1].scriptPubKey

C9_Witness ==
  /\ RefundBuilt
  /\ call.op = "build_tx4"
  /\ funding.tx.vout[1].scriptPubKey \notin EscrowScripts(funding.secret_hash)

\* C10: a refund built by build_tx2 / build_tx4 has one input of sequence
\* number 1, one output and the unlocking script (signature, public key);
\* assert_tx2_valid accepts it when its lock time is in [now+12h, now+72h] and
\* refuses it when it is not, and the count of elements in sign_tx2 accepts it.
C10_BuiltRefundCompatible ==
  refund.by = "builder" =>
    /\ RefundShape(refund.tx)
    /\ refund.tx.vin[1].nSequence = SEQUENCE_ONE
    /\ Len(refund.tx.vin[1].scriptSig) = 2
    /\ refund.tx.vin[1].scriptSig[1].data.k = "sig"
    /\ refund.tx.vin[1].scriptSig[2].data.k = "pub"
    /\ call.op = "assert_tx2_valid" =>
         (call.res.outcome = "ok" <=> InWindowDuring(call, refund.tx.nLockTime))
    /\ call.op = "sign_tx2" => call.res.outcome \in {"ok", "JSONRPCError"}

C10_Witness ==
  /\ refund.by = "builder"
  /\ call.op = "assert_tx2_valid"
  /\ call.res.outcome = "ok"
  /\ refund.tx.nLockTime = call.utcnow2 + 72

====
